---------------------------- MODULE Spec2Model ----------------------------
(***************************************************************************)
(* Model of the ozes protocol front end: the tokenizer (src/lexer) and the *)
(* recursive-descent command parser (src/parser).                          *)
(*                                                                         *)
(* A buffer (bytes::Bytes) is a sequence of byte values 0..255.  The lexer *)
(* cursor idx is 0-based as in the source; input[idx] of the source is     *)
(* input[idx + 1] here.  Option<T> is a sequence of length 0 (None) or 1   *)
(* (Some).  usize is 64 bits wide; since its range exceeds the integers of *)
(* the model checker, a usize value is its canonical decimal digit         *)
(* sequence (<<0>> for zero, no leading zero otherwise).                   *)
(***************************************************************************)
EXTENDS Integers, Sequences, FiniteSets, TLC

VARIABLES
    input,        \* Lexer.input: the buffer
    idx,          \* Lexer.idx: the cursor
    current_tok,  \* Parser.current_tok
    next_tok,     \* Parser.next_tok
    commands,     \* the local vector `commands` of parse_commands
    result,       \* what parse has returned: [status, commands, error]
    lexed,        \* history: one entry [tok, from, to] per call of next_token
    heads,        \* history: positions in lexed of the tokens dispatched as statement heads
    stream        \* history: the tokens of the buffer handed to parse, up to its first Eof

vars == <<input, idx, current_tok, next_tok, commands, result, lexed, heads, stream>>

----------------------------------------------------------------------------
(* Bytes *)

\* The printable ASCII characters 32..95 and 97..126, in code order.
PrintableLow == " !\"#$%&'()*+,-./0123456789:;<=>?@ABCDEFGHIJKLMNOPQRSTUVWXYZ[\\]^_"
PrintableHigh == "abcdefghijklmnopqrstuvwxyz{|}~"

\* The byte value of a one-character string.
Ord(c) ==
    IF \E i \in 1..Len(PrintableLow) : SubSeq(PrintableLow, i, i) = c
    THEN 31 + (CHOOSE i \in 1..Len(PrintableLow) : SubSeq(PrintableLow, i, i) = c)
    ELSE 96 + (CHOOSE i \in 1..Len(PrintableHigh) : SubSeq(PrintableHigh, i, i) = c)

\* A byte string literal, b"..." of the source.
B(s) == [i \in 1..Len(s) |-> Ord(SubSeq(s, i, i))]

NUL == <<0>>
Byte == 0..255

\* u8::is_ascii_whitespace: space, \t, \n, form feed, \r
AsciiWhitespace == {32, 9, 10, 12, 13}
\* u8::is_ascii_digit
AsciiDigit == 48..57
AsciiUpper == 65..90
AsciiLower == 97..122
\* u8::is_ascii_alphanumeric
AsciiAlphanumeric == AsciiUpper \cup AsciiLower \cup AsciiDigit

\* [u8]::to_ascii_lowercase
to_ascii_lowercase(s) ==
    [i \in 1..Len(s) |-> IF s[i] \in AsciiUpper THEN s[i] + 32 ELSE s[i]]

\* &input[start..end]
Slice(s, start, end) == SubSeq(s, start + 1, end)

None == <<>>
Some(v) == <<v>>

----------------------------------------------------------------------------
(* usize *)

\* usize::MAX = 2^64 - 1
USIZE_MAX == <<1, 8, 4, 4, 6, 7, 4, 4, 0, 7, 3, 7, 0, 9, 5, 5, 1, 6, 1, 5>>

RECURSIVE DigitsLeq(_, _)
\* a <= b for canonical digit sequences of the same length
DigitsLeq(a, b) ==
    IF a = <<>> THEN TRUE
    ELSE IF Head(a) # Head(b) THEN Head(a) < Head(b)
    ELSE DigitsLeq(Tail(a), Tail(b))

\* a <= usize::MAX for a canonical digit sequence
FitsUsize(a) ==
    \/ Len(a) < Len(USIZE_MAX)
    \/ Len(a) = Len(USIZE_MAX) /\ DigitsLeq(a, USIZE_MAX)

\* result * 10 + d without the overflow check
UncheckedMulAdd(n, d) == Some(IF n = <<0>> THEN <<d>> ELSE Append(n, d))

\* result.checked_mul(10)?.checked_add(d)?  (None on overflow)
CheckedMulAdd(n, d) ==
    LET r == IF n = <<0>> THEN <<d>> ELSE Append(n, d)
    IN  IF FitsUsize(r) THEN Some(r) ELSE None

RECURSIVE FromStrLoop(_, _)
FromStrLoop(acc, digits) ==
    IF digits = <<>> THEN Some(acc)
    ELSE LET r == CheckedMulAdd(acc, Head(digits) - 48)
         IN  IF r = None THEN None ELSE FromStrLoop(r[1], Tail(digits))

\* str::parse::<usize> on a run of ASCII digits: Err on the empty string
\* and on overflow, Ok(value) otherwise
parse_usize(digits) ==
    IF digits = <<>> THEN None ELSE FromStrLoop(<<0>>, digits)

----------------------------------------------------------------------------
(* Tokens *)

TokenKinds == {"Ok", "Eof", "With", "Name", "Group", "Illegal", "Message",
               "Publisher", "Subscribe", "Semicolon", "Error", "Len", "Binary"}

\* A TokenType other than Len carries no number.
TT(kind) == [kind |-> kind, len |-> <<>>]
\* TokenType::Len(n)
TLen(n) == [kind |-> "Len", len |-> n]

\* Token::new
Token(token_type, value) == [token_type |-> token_type, value |-> value]

\* impl PartialEq for TokenType: the discriminants are compared
TokenTypeEq(a, b) == a.kind = b.kind

\* #[derive(PartialEq)] for Token: field by field, token_type by the
\* PartialEq of TokenType
TokenEq(a, b) == TokenTypeEq(a.token_type, b.token_type) /\ a.value = b.value

\* the keyword table of impl From<&[u8]> for TokenType
KwWith == B("with")
KwGroup == B("group")
KwPublisher == B("publisher")
KwSubscribe == B("subscribe")
KwMessage == B("message")
KwOk == B("ok")
KwError == B("error")

\* the keyword table matched on the bytes as they are
TokenType_from_exact(slice) ==
    CASE slice = KwWith -> TT("With")
      [] slice = KwGroup -> TT("Group")
      [] slice = KwPublisher -> TT("Publisher")
      [] slice = KwSubscribe -> TT("Subscribe")
      [] slice = KwMessage -> TT("Message")
      [] slice = KwOk -> TT("Ok")
      [] slice = KwError -> TT("Error")
      [] OTHER -> TT("Name")

\* impl From<&[u8]> for TokenType
TokenType_from(slice) ==
    LET low == to_ascii_lowercase(slice)
    IN  CASE low = KwWith -> TT("With")
          [] low = KwGroup -> TT("Group")
          [] low = KwPublisher -> TT("Publisher")
          [] low = KwSubscribe -> TT("Subscribe")
          [] low = KwMessage -> TT("Message")
          [] low = KwOk -> TT("Ok")
          [] low = KwError -> TT("Error")
          [] OTHER -> TT("Name")

----------------------------------------------------------------------------
(* Lexer *)

\* Lexer::current_char
current_char(inp, i) == IF i < Len(inp) THEN inp[i + 1] ELSE 0
\* Lexer::next_char
next_char(inp, i) == IF i + 1 < Len(inp) THEN inp[i + 2] ELSE 0
\* Lexer::is_eof
is_eof(inp, i) == current_char(inp, i) = 0

RECURSIVE skip_until(_, _, _)
\* Lexer::skip_until; the closure is given as the set of bytes it accepts
skip_until(inp, i, until) ==
    IF current_char(inp, i) \in until /\ ~is_eof(inp, i)
    THEN skip_until(inp, i + 1, until)
    ELSE i

\* the byte literals of next_token
Plus == Ord("+")
LowerL == Ord("l")
Underscore == Ord("_")
Dot == Ord(".")
Semi == Ord(";")
Hash == Ord("#")

IdentStart == AsciiLower \cup AsciiUpper \cup {Underscore}
IdentChar == AsciiAlphanumeric \cup {Underscore, Dot}
NotBlank == Byte \ (AsciiWhitespace \cup {0})

\* the `+l` arm, from its digit run on: Illegal carrying the run if it does
\* not parse as a usize, Len(number) without payload otherwise
LenToken(number_slice, number, end) ==
    IF number = None
    THEN [tok |-> Token(TT("Illegal"), Some(number_slice)), idx |-> end]
    ELSE [tok |-> Token(TLen(number[1]), None), idx |-> end]

\* the `+l` arm once the digit run [s, e) is skipped
LenRun(inp, s, e) == LenToken(Slice(inp, s, e), parse_usize(Slice(inp, s, e)), e)

\* the `+l` arm: consume, consume, then the digit run
LenArm(inp, start) == LenRun(inp, start + 2, skip_until(inp, start + 2, AsciiDigit))

\* an identifier arm whose token carries no payload
IdentTokenBare(inp, start, end) ==
    [tok |-> Token(TokenType_from(Slice(inp, start, end)), None), idx |-> end + 1]

\* the identifier arm once the run [start, end) is skipped: one more
\* consume, then the token of the run
IdentToken(inp, start, end) ==
    [tok |-> Token(TokenType_from(Slice(inp, start, end)), Some(Slice(inp, start, end))),
     idx |-> end + 1]

\* the identifier arm
IdentArm(inp, start) == IdentToken(inp, start, skip_until(inp, start, IdentChar))

\* the `;` arm
SemicolonArm(inp, start) == [tok |-> Token(TT("Semicolon"), None), idx |-> start + 1]

\* a `#` arm whose payload ends at the next whitespace
BinaryArmToBlank(inp, start) ==
    [tok |-> Token(TT("Binary"),
                   Some(Slice(inp, start + 1, skip_until(inp, start + 1, NotBlank)))),
     idx |-> skip_until(inp, start + 1, NotBlank)]

\* the `#` arm: the payload is the rest of the buffer
BinaryArm(inp, start) ==
    [tok |-> Token(TT("Binary"), Some(Slice(inp, start + 1, Len(inp)))),
     idx |-> Len(inp)]

\* a 0 arm that consumes the byte it matched
EofArmConsuming(inp, start) == [tok |-> Token(TT("Eof"), None), idx |-> start + 1]

\* the 0 arm
EofArm(inp, start) == [tok |-> Token(TT("Eof"), None), idx |-> start]

\* the fallback arm once the run [start, end) is skipped
IllegalToken(inp, start, end) ==
    [tok |-> Token(TT("Illegal"), Some(Slice(inp, start, end))), idx |-> end]

\* the fallback arm
IllegalArm(inp, start) == IllegalToken(inp, start, skip_until(inp, start, NotBlank))

\* the match of next_token on the byte c at `start`, the cursor after the
\* leading whitespace: the token returned and the cursor left
TokenAt(inp, start, c) ==
    CASE c = Plus /\ next_char(inp, start) = LowerL -> LenArm(inp, start)
      [] c \in IdentStart -> IdentArm(inp, start)
      [] c = Semi -> SemicolonArm(inp, start)
      [] c = Hash -> BinaryArm(inp, start)
      [] c = 0 -> EofArm(inp, start)
      [] OTHER -> IllegalArm(inp, start)

\* the cursor after the leading whitespace is skipped
TokenStart(inp, i) == skip_until(inp, i, AsciiWhitespace)

\* next_token once the leading whitespace is skipped
TokenFrom(inp, start) == TokenAt(inp, start, current_char(inp, start))

\* Lexer::next_token from cursor i: [tok, idx], the token returned and the
\* cursor left
next_token(inp, i) == TokenFrom(inp, TokenStart(inp, i))

\* the history entry of a call of next_token made at cursor i that returned r
Entry(i, r) == [tok |-> r.tok, from |-> i, to |-> r.idx]

\* one call of next_token at cursor i, as a history entry
Call(inp, i) == Entry(i, next_token(inp, i))

RECURSIVE TokensFrom(_, _)
RECURSIVE TokensAfter(_, _)
\* the tokens the lexer produces from cursor i, up to the first Eof
TokensFrom(inp, i) == TokensAfter(inp, next_token(inp, i))

TokensAfter(inp, r) ==
    IF r.tok.token_type.kind = "Eof" THEN <<r.tok>>
    ELSE <<r.tok>> \o TokensFrom(inp, r.idx)

\* the tokens of the whole buffer
Tokens(inp) == TokensFrom(inp, 0)

----------------------------------------------------------------------------
(* Buffers of the lexer specification *)

MaxPieces == 2
MaxCalls == 5

Pieces ==
    { B("with"), B("group"), B("publisher"), B("subscribe"), B("message"),
      B("ok"), B("error"),
      B("WITH"), B("Group"), B("pUBLISHER"), B("SubScribe"), B("MESSAGE"),
      B("oK"), B("Error"),
      B("foo"), B("_a.1"), B("okk"), B("x"),
      B(";"), B("#"), B(" "), B("+"), B("+l"), B("l"),
      B("0"), B("19"), B("007"),
      B("18446744073709551615"), B("18446744073709551616"),
      B("+l250 "), <<9>>, <<233>>, NUL }

\* the members of C, and each of them followed by a member of S
Extend(C, S) == C \cup {c \o s : c \in C, s \in S}

RECURSIVE Concats(_, _)
\* the concatenations of at most n members of S
Concats(S, n) == IF n = 0 THEN {<<>>} ELSE Extend(Concats(S, n - 1), S)

LexInputs == Concats(Pieces, MaxPieces)

NoToken == Token(TT("Eof"), None)
NoResult == [status |-> "none", commands |-> <<>>, error |-> ""]

\* Lexer::new(input)
LexInit ==
    /\ input \in LexInputs
    /\ idx = 0
    /\ lexed = <<>>
    /\ current_tok = NoToken
    /\ next_tok = NoToken
    /\ commands = <<>>
    /\ result = NoResult
    /\ heads = <<>>
    /\ stream = <<>>

\* one call of Lexer::next_token
NextToken ==
    /\ Len(lexed) < MaxCalls
    /\ LET c == Call(input, idx)
       IN  /\ idx' = c.to
           /\ lexed' = Append(lexed, c)
    /\ UNCHANGED <<input, stream, current_tok, next_tok, commands, result, heads>>

LexNext == NextToken

LexSpec == LexInit /\ [][LexNext]_vars

----------------------------------------------------------------------------
(* Commands *)

MessageCmd(message, len) == [type |-> "Message", message |-> message, len |-> len]
ErrorCmd(message) == [type |-> "Error", message |-> message]
PublisherCmd(queue_name) == [type |-> "Publisher", queue_name |-> queue_name]
SubscriberCmd(queue_name, group_name) ==
    [type |-> "Subscriber", queue_name |-> queue_name, group_name |-> group_name]
OkCmd(len) == [type |-> "Ok", len |-> len]

----------------------------------------------------------------------------
(* Parser *)
(* A parser value p is [idx, current_tok, next_tok, lexed]: the cursor of  *)
(* its lexer, the two-token window and the history of the lexer's calls.   *)
(* A statement routine returns [ok, p, cmd, error, panic].                 *)

\* a window that takes the new token as current and keeps its lookahead
ShiftIntoCurrent(p, c) ==
    [idx |-> c.to,
     current_tok |-> c.tok,
     next_tok |-> p.next_tok,
     lexed |-> Append(p.lexed, c)]

\* the window after a call c of next_token: current <- next, next <- c.tok
Shift(p, c) ==
    [idx |-> c.to,
     current_tok |-> p.next_tok,
     next_tok |-> c.tok,
     lexed |-> Append(p.lexed, c)]

\* Parser::consume
Parser_consume(inp, p) == Shift(p, Call(inp, p.idx))

\* Lexer::new(input) and an empty window
Blank == [idx |-> 0, current_tok |-> Token(TT("Eof"), None),
          next_tok |-> Token(TT("Eof"), None), lexed |-> <<>>]

\* Parser::new(Lexer::new(input)): (lexer.next_token(), lexer.next_token())
\* fills the window from the left
Parser_new(inp) == Parser_consume(inp, Parser_consume(inp, Blank))

\* Parser::current_token_is
current_token_is(p, token_type) == TokenTypeEq(p.current_tok.token_type, token_type)

\* expected_token consuming the lookahead it refuses
expected_token_consuming(inp, p, token_type) ==
    IF TokenTypeEq(p.next_tok.token_type, token_type)
    THEN [ok |-> TRUE, p |-> Parser_consume(inp, p)]
    ELSE [ok |-> FALSE, p |-> Parser_consume(inp, p)]

\* Parser::expected_token: [ok, p]
expected_token(inp, p, token_type) ==
    IF TokenTypeEq(p.next_tok.token_type, token_type)
    THEN [ok |-> TRUE, p |-> Parser_consume(inp, p)]
    ELSE [ok |-> FALSE, p |-> p]

\* Parser::expected_token_in: [ok, p]
expected_token_in(inp, p, tokens_types) ==
    IF \E i \in 1..Len(tokens_types) : TokenTypeEq(p.next_tok.token_type, tokens_types[i])
    THEN [ok |-> TRUE, p |-> Parser_consume(inp, p)]
    ELSE [ok |-> FALSE, p |-> p]

NoCmd == [type |-> "none"]
\* Ok(command) of a statement routine
Built(p, cmd) == [ok |-> TRUE, p |-> p, cmd |-> cmd, error |-> "", panic |-> FALSE]
\* the `?` of a statement routine on Err
Failed(p, error) == [ok |-> FALSE, p |-> p, cmd |-> NoCmd, error |-> error, panic |-> FALSE]
\* Option::unwrap on None
Panicked(p) == [ok |-> FALSE, p |-> p, cmd |-> NoCmd, error |-> "", panic |-> TRUE]

\* the fallback taken whatever the token is
LenAlways0(tok) == <<0>>

\* the number a statement takes from a token: `if let TokenType::Len(len) = ... else 0`
LenOr0(tok) ==
    IF tok.token_type.kind = "Len" THEN tok.token_type.len ELSE <<0>>

RECURSIVE Expects(_, _, _, _)
RECURSIVE Expected(_, _, _, _)
\* a chain of `self.expected_token(t)?` calls, one per member of tts in
\* order: [ok, p, seen], seen being the current token after each call that
\* matched; the chain stops at the first mismatch
Expects(inp, p, tts, seen) ==
    IF tts = <<>> THEN [ok |-> TRUE, p |-> p, seen |-> seen]
    ELSE Expected(inp, expected_token(inp, p, Head(tts)), Tail(tts), seen)

\* the chain after one call e of expected_token
Expected(inp, e, rest, seen) ==
    IF e.ok
    THEN Expects(inp, e.p, rest, Append(seen, e.p.current_tok))
    ELSE [ok |-> FALSE, p |-> e.p, seen |-> seen]

\* the end of a statement routine whose chain of expectations gave r: each
\* token of `unwrapped` has its payload unwrapped, then consume and Ok(cmd)
Finish(inp, r, unwrapped, cmd) ==
    IF ~r.ok THEN Failed(r.p, "expected")
    ELSE IF \E i \in unwrapped : r.seen[i].value = None THEN Panicked(r.p)
    ELSE Built(Parser_consume(inp, r.p), cmd)

\* self.current_tok.value().unwrap() after the i-th expectation
Unwrap(r, i) == IF r.ok /\ r.seen[i].value # None THEN r.seen[i].value[1] ELSE <<>>

\* the number of the current token after the i-th expectation
LenAfter(r, i) == IF r.ok THEN LenOr0(r.seen[i]) ELSE <<0>>

\* Parser::parse_message, from its expectations on
message_of(inp, r) == Finish(inp, r, {2}, MessageCmd(Unwrap(r, 2), LenAfter(r, 1)))

\* a chain r after one more call e, of expected_token_in
ExpectedIn(r, e) ==
    IF e.ok
    THEN [ok |-> TRUE, p |-> e.p, seen |-> Append(r.seen, e.p.current_tok)]
    ELSE [ok |-> FALSE, p |-> e.p, seen |-> r.seen]

\* a chain r followed by `self.expected_token_in(tokens_types)?`
ThenIn(inp, r, tokens_types) ==
    IF r.ok THEN ExpectedIn(r, expected_token_in(inp, r.p, tokens_types)) ELSE r

\* Parser::parse_message
parse_message(inp, p) ==
    message_of(inp, ThenIn(inp, Expects(inp, p, <<TLen(<<0>>)>>, <<>>), <<TT("Binary")>>))

\* parse_error_message skipping the token it examined when the lookup fails
error_message_skipping(inp, e) ==
    Built(IF e.ok THEN Parser_consume(inp, e.p)
          ELSE Parser_consume(inp, Parser_consume(inp, e.p)),
          ErrorCmd(IF e.ok THEN e.p.current_tok.value ELSE None))

\* parse_error_message requiring its Binary
error_message_required(inp, e) ==
    IF e.ok
    THEN Built(Parser_consume(inp, e.p), ErrorCmd(e.p.current_tok.value))
    ELSE Failed(e.p, "expected")

\* parse_error_message without its consume
error_message_staying(inp, e) ==
    Built(e.p, ErrorCmd(IF e.ok THEN e.p.current_tok.value ELSE None))

\* Parser::parse_error_message, from its optional expectation on
error_message_of(inp, e) ==
    Built(Parser_consume(inp, e.p),
          ErrorCmd(IF e.ok THEN e.p.current_tok.value ELSE None))

\* Parser::parse_error_message
parse_error_message(inp, p) ==
    error_message_of(inp, expected_token(inp, p, TT("Binary")))

\* parse_message_with_len dropping the number of its Len token
message_with_len_zero(inp, r, len) == Finish(inp, r, {1}, MessageCmd(Unwrap(r, 1), <<0>>))

\* Parser::parse_message_with_len, from its expectation on
message_with_len_of(inp, r, len) == Finish(inp, r, {1}, MessageCmd(Unwrap(r, 1), len))

\* Parser::parse_message_with_len
parse_message_with_len(inp, p, len) ==
    message_with_len_of(inp, Expects(inp, p, <<TT("Binary")>>, <<>>), len)

\* Parser::parse_publisher, from its expectation on
publisher_of(inp, r) == Finish(inp, r, {1}, PublisherCmd(Unwrap(r, 1)))

\* Parser::parse_publisher
parse_publisher(inp, p) ==
    publisher_of(inp, Expects(inp, p, <<TT("Name")>>, <<>>))

\* parse_subscriber with its two names exchanged
subscriber_swapped(inp, r) ==
    Finish(inp, r, {1, 4}, SubscriberCmd(Unwrap(r, 4), Unwrap(r, 1)))

\* Parser::parse_subscriber, from its expectations on
subscriber_of(inp, r) ==
    Finish(inp, r, {1, 4}, SubscriberCmd(Unwrap(r, 1), Unwrap(r, 4)))

\* Parser::parse_subscriber
parse_subscriber(inp, p) ==
    subscriber_of(inp, Expects(inp, p, <<TT("Name"), TT("With"), TT("Group"), TT("Name")>>, <<>>))

\* Parser::parse_ok, from its expectations on
ok_of(inp, r) == Finish(inp, r, {}, OkCmd(LenAfter(r, 1)))

\* parse_ok without its expectation of Eof
parse_ok_anywhere(inp, p) ==
    ok_of(inp, Expects(inp, p, <<TLen(<<0>>)>>, <<>>))

\* Parser::parse_ok
parse_ok(inp, p) ==
    ok_of(inp, Expects(inp, p, <<TLen(<<0>>), TT("Eof")>>, <<>>))

\* the kinds parse_commands dispatches to a statement routine
StatementHeads == {"Message", "Publisher", "Subscribe", "Ok", "Len", "Error"}

\* the match of parse_commands on the type tt of the current token
Match(inp, p, tt) ==
    CASE tt.kind = "Message" -> parse_message(inp, p)
      [] tt.kind = "Publisher" -> parse_publisher(inp, p)
      [] tt.kind = "Subscribe" -> parse_subscriber(inp, p)
      [] tt.kind = "Ok" -> parse_ok(inp, p)
      [] tt.kind = "Len" -> parse_message_with_len(inp, p, tt.len)
      [] tt.kind = "Error" -> parse_error_message(inp, p)
      [] OTHER -> Failed(p, "miss expression")

\* `match current_token { ... }` of parse_commands
Dispatch(inp, p) == Match(inp, p, p.current_tok.token_type)

\* the optional Semicolon at the top of an iteration of parse_commands
SkipSemicolon(inp, p) ==
    IF current_token_is(p, TT("Semicolon")) THEN Parser_consume(inp, p) ELSE p

----------------------------------------------------------------------------
(* Buffers of the parser specification *)

MaxChunks == 3

Chunks ==
    { B("publisher foo"), B("subscribe a with group b"), B("message +l19 #baz;"),
      B("+l8 #"), B("ok +l400"), B("error"), B(";"), B(" "),
      B("subscribe a with b"), B("123"), B("message +l1"),
      B("#x"), B("error ; publisher bar ; "), B("subscribe a with group") }

Inputs == Concats(Chunks, MaxChunks)

----------------------------------------------------------------------------
(* parse(input): Parser::new, then parse_commands one iteration at a time *)

Self == [idx |-> idx, current_tok |-> current_tok, next_tok |-> next_tok, lexed |-> lexed]

Become(p) ==
    /\ idx' = p.idx
    /\ current_tok' = p.current_tok
    /\ next_tok' = p.next_tok
    /\ lexed' = p.lexed

\* parse(input) has built its parser
Init ==
    /\ input \in Inputs
    /\ \E p \in {Parser_new(input)} :
           /\ idx = p.idx
           /\ current_tok = p.current_tok
           /\ next_tok = p.next_tok
           /\ lexed = p.lexed
    /\ commands = <<>>
    /\ result = NoResult
    /\ heads = <<>>
    /\ stream = Tokens(input)

Running == result.status = "none"

\* the while condition is false: Ok(commands)
ReturnOk ==
    /\ Running
    /\ current_token_is(Self, TT("Eof"))
    /\ result' = [status |-> "Ok", commands |-> commands, error |-> ""]
    /\ UNCHANGED <<input, stream, idx, current_tok, next_tok, commands, lexed, heads>>

\* a Semicolon before Eof taken as a statement that is missing
BreakAsMiss(p) ==
    /\ current_token_is(p, TT("Eof"))
    /\ Become(p)
    /\ result' = [status |-> "Err", commands |-> <<>>, error |-> "miss expression"]
    /\ UNCHANGED <<input, stream, commands, heads>>

\* the break of the loop
Break(p) ==
    /\ current_token_is(p, TT("Eof"))
    /\ Become(p)
    /\ result' = [status |-> "Ok", commands |-> commands, error |-> ""]
    /\ UNCHANGED <<input, stream, commands, heads>>

\* a Semicolon with Eof after it: consume, break, Ok(commands)
SemicolonBreak ==
    /\ Running
    /\ current_token_is(Self, TT("Semicolon"))
    /\ Break(Parser_consume(input, Self))

\* an iteration that returns the commands built so far with the error
CommitPartial(r) ==
    /\ Become(r.p)
    /\ IF r.ok
       THEN /\ commands' = Append(commands, r.cmd)
            /\ UNCHANGED result
       ELSE /\ result' = [status |-> IF r.panic THEN "Panic" ELSE "Err",
                          commands |-> commands, error |-> r.error]
            /\ UNCHANGED commands

\* an iteration that puts its command in front of the ones built before
CommitInFront(r) ==
    /\ Become(r.p)
    /\ IF r.ok
       THEN /\ commands' = <<r.cmd>> \o commands
            /\ UNCHANGED result
       ELSE /\ result' = [status |-> IF r.panic THEN "Panic" ELSE "Err",
                          commands |-> <<>>, error |-> r.error]
            /\ UNCHANGED commands

\* the end of an iteration whose statement routine returned r: push the
\* command, or return the error
Commit(r) ==
    /\ Become(r.p)
    /\ IF r.ok
       THEN /\ commands' = Append(commands, r.cmd)
            /\ UNCHANGED result
       ELSE /\ result' = [status |-> IF r.panic THEN "Panic" ELSE "Err",
                          commands |-> <<>>, error |-> r.error]
            /\ UNCHANGED commands

\* the match of an iteration, p being the parser after the optional
\* Semicolon, taken when the token dispatched on has one of `kinds`
Statement(kinds, p) ==
    /\ ~(current_token_is(Self, TT("Semicolon")) /\ current_token_is(p, TT("Eof")))
    /\ p.current_tok.token_type.kind \in kinds
    /\ heads' = Append(heads, Len(p.lexed) - 1)
    /\ Commit(Dispatch(input, p))
    /\ UNCHANGED <<input, stream>>

\* the while condition is true
LoopTop == Running /\ ~current_token_is(Self, TT("Eof"))

\* the parser at the match of this iteration
AtMatch == SkipSemicolon(input, Self)

\* one iteration of the loop for each arm of the match
ParseMessage ==
    /\ LoopTop
    /\ Statement({"Message"}, AtMatch)

ParsePublisher ==
    /\ LoopTop
    /\ Statement({"Publisher"}, AtMatch)

ParseSubscriber ==
    /\ LoopTop
    /\ Statement({"Subscribe"}, AtMatch)

ParseOk ==
    /\ LoopTop
    /\ Statement({"Ok"}, AtMatch)

ParseMessageWithLen ==
    /\ LoopTop
    /\ Statement({"Len"}, AtMatch)

ParseErrorMessage ==
    /\ LoopTop
    /\ Statement({"Error"}, AtMatch)

MissExpression ==
    /\ LoopTop
    /\ Statement(TokenKinds \ StatementHeads, AtMatch)

Next ==
    \/ ReturnOk
    \/ SemicolonBreak
    \/ ParseMessage
    \/ ParsePublisher
    \/ ParseSubscriber
    \/ ParseOk
    \/ ParseMessageWithLen
    \/ ParseErrorMessage
    \/ MissExpression

Spec == Init /\ [][Next]_vars

----------------------------------------------------------------------------
(* The wire grammar, on the kinds of the tokens of a buffer *)

\* the kinds of a sequence of tokens
Kinds(ts) == [n \in 1..Len(ts) |-> ts[n].token_type.kind]

\* publisher | subscriber | message | message_short | ok | error
StatementForms ==
    { <<"Publisher", "Name">>,
      <<"Subscribe", "Name", "With", "Group", "Name">>,
      <<"Message", "Len", "Binary">>,
      <<"Len", "Binary">>,
      <<"Ok", "Len">>,
      <<"Error", "Binary">>,
      <<"Error">> }

StartsWith(ks, f) == Len(f) <= Len(ks) /\ SubSeq(ks, 1, Len(f)) = f
Drop(ks, n) == SubSeq(ks, n + 1, Len(ks))

RECURSIVE Program(_)
RECURSIVE ProgramAfter(_, _)
\* program := (statement ";"?)* EOF
Program(ks) ==
    \/ ks = <<"Eof">>
    \/ \E f \in StatementForms : StartsWith(ks, f) /\ ProgramAfter(f, Drop(ks, Len(f)))

\* what may follow statement f: an optional ";" and the rest of the
\* program; ok must be followed by end-of-input
ProgramAfter(f, rest) ==
    /\ f[1] = "Ok" => rest = <<"Eof">>
    /\ \/ Program(rest)
       \/ rest # <<>> /\ Head(rest) = "Semicolon" /\ Program(Tail(rest))

\* C1 (as claimed): parse returns Ok exactly when the kinds of the buffer's
\* tokens are derivable from program := (statement ";"?)* EOF, and Err for
\* every other token sequence, a ";" that follows no statement included.
C1_OkIffDerivable ==
    result.status # "none" =>
        /\ result.status \in {"Ok", "Err"}
        /\ result.status = "Ok" <=> Program(Kinds(stream))

----------------------------------------------------------------------------
(* The histories *)

\* the kind of the n-th token the lexer produced
KindAt(n) == lexed[n].tok.token_type.kind

\* the index (1-based) of the first byte of the token of history entry c:
\* the first byte at or after c.from that is not ASCII whitespace
FirstByte(c) ==
    CHOOSE k \in (c.from + 1)..(Len(input) + 1) :
        /\ k <= Len(input) => input[k] \notin AsciiWhitespace
        /\ \A j \in (c.from + 1)..(k - 1) : input[j] \in AsciiWhitespace

\* the kinds of tokens cut from an identifier-shaped run
IdentifierKinds ==
    {"With", "Group", "Publisher", "Subscribe", "Message", "Ok", "Error", "Name"}

\* the index (1-based) of the last byte of the identifier of history entry c
LastByte(c) == FirstByte(c) + Len(c.tok.value[1]) - 1

\* C2 (as claimed): a call of next_token leaves the cursor immediately after
\* the last byte of its token: after an identifier token (a keyword kind or
\* Name) the cursor is the index just past the identifier's run, so a byte
\* that directly follows an identifier is where the next call starts (for
\* `foo;` the calls return Name then Semicolon).
C2_CursorJustPastIdentifier ==
    \A n \in 1..Len(lexed) :
        (/\ KindAt(n) \in IdentifierKinds
         /\ LastByte(lexed[n]) < Len(input)
         /\ input[LastByte(lexed[n]) + 1] \in NotBlank) =>
            /\ lexed[n].to = LastByte(lexed[n])
            /\ n < Len(lexed) =>
                   /\ KindAt(n + 1) # "Eof"
                   /\ FirstByte(lexed[n + 1]) = LastByte(lexed[n]) + 1

\* C3 (as claimed): when the Binary lookup of parse_error_message fails, the
\* lookahead token it examined is skipped: it is never the head of a later
\* statement.
C3_LookaheadSkipped ==
    \A i \in 1..Len(heads) :
        (KindAt(heads[i]) = "Error" /\ KindAt(heads[i] + 1) # "Binary") =>
            \A j \in 1..Len(heads) : heads[j] # heads[i] + 1

\* C3 (amended): when the Binary lookup of parse_error_message fails, only
\* the leading `error` token is consumed: the lookahead token it examined is
\* the current token when the routine returns, and unless it is a `;` or Eof
\* it is the head of the next statement (after a `;`, the token that follows
\* the `;` is).
C3_LookaheadBecomesCurrent ==
    \A i \in 1..Len(heads) :
        (KindAt(heads[i]) = "Error" /\ KindAt(heads[i] + 1) # "Binary") =>
            /\ (i = Len(heads) /\ Running) =>
                   /\ Len(lexed) = heads[i] + 2
                   /\ current_tok = lexed[heads[i] + 1].tok
                   /\ next_tok = lexed[heads[i] + 2].tok
                   /\ commands[i] = ErrorCmd(None)
            /\ i < Len(heads) =>
                   heads[i + 1] = IF KindAt(heads[i] + 1) = "Semicolon"
                                  THEN heads[i] + 2
                                  ELSE heads[i] + 1

\* a parse in which `error` was followed by another statement head, which
\* was then parsed as the next statement
C3_Witness ==
    /\ result.status = "Ok"
    /\ Len(heads) = 2
    /\ KindAt(heads[1]) = "Error"
    /\ KindAt(heads[1] + 1) = "Publisher"
    /\ heads[2] = heads[1] + 1
    /\ result.commands = <<ErrorCmd(None), PublisherCmd(B("foo"))>>

----------------------------------------------------------------------------
(* Statements, as the dispatch table of the parser describes them *)

\* the kind of the n-th token of a stream of kinds ks; the stream is Eof
\* from its first Eof on
At(ks, n) == IF n <= Len(ks) THEN ks[n] ELSE "Eof"

\* the kind of the n-th token of the buffer
K(n) == At(Kinds(stream), n)

\* the kinds a statement requires after its leading token
ExpectedAfter(kind) ==
    CASE kind = "Message" -> <<"Len", "Binary">>
      [] kind = "Len" -> <<"Binary">>
      [] kind = "Publisher" -> <<"Name">>
      [] kind = "Subscribe" -> <<"Name", "With", "Group", "Name">>
      [] kind = "Ok" -> <<"Len", "Eof">>
      [] OTHER -> <<>>

\* in the stream ks, the statement whose leading token is the h-th token
\* violates the grammar
ViolatesIn(ks, h) ==
    \/ At(ks, h) \notin StatementHeads
    \/ \E j \in 1..Len(ExpectedAfter(At(ks, h))) :
           At(ks, h + j) # ExpectedAfter(At(ks, h))[j]

\* the statement whose leading token is the h-th token of the buffer
\* violates the grammar
Violates(h) == ViolatesIn(Kinds(stream), h)

\* the offset from h of the first token that is not the one required
FirstMismatch(ks, h) ==
    CHOOSE j \in 1..Len(ExpectedAfter(At(ks, h))) :
        /\ At(ks, h + j) # ExpectedAfter(At(ks, h))[j]
        /\ \A l \in 1..(j - 1) : At(ks, h + l) = ExpectedAfter(At(ks, h))[l]

\* C4: fail-fast with no partial result: when the i-th statement violates
\* the grammar, parse returns Err without any command, that statement is the
\* last one dispatched, no command is built after the i - 1 built before it,
\* and the lexer is not called again once the offending token is seen.
C4_FailFast ==
    LET ks == Kinds(stream)
    IN  \A i \in 1..Len(heads) :
            ViolatesIn(ks, heads[i]) =>
                /\ result.status = "Err"
                /\ result.commands = <<>>
                /\ i = Len(heads)
                /\ Len(commands) = i - 1
                /\ Len(lexed) = IF At(ks, heads[i]) \in StatementHeads
                                THEN heads[i] + FirstMismatch(ks, heads[i])
                                ELSE heads[i] + 1

\* an Err on the second or a later statement, commands built before it, and
\* tokens of the buffer that were never asked for
C4_Witness ==
    /\ result.status = "Err"
    /\ Len(heads) = 2
    /\ commands = <<PublisherCmd(B("foo"))>>
    /\ K(heads[2]) = "Subscribe"
    /\ Violates(heads[2])
    /\ Len(lexed) < Len(Kinds(stream))

\* C5: an Ok command can only be the last command: `ok +l<n>` followed by
\* a token other than Eof makes parse return Err, and `ok +l<n>` followed by
\* Eof yields Ok{len: n} as the last command of the result.
C5_OkIsLast ==
    /\ \A i \in 1..Len(commands) : commands[i].type = "Ok" => i = Len(commands)
    /\ result.status = "Ok" => result.commands = commands
    /\ LET ks == Kinds(stream)
       IN  \A i \in 1..Len(heads) :
               (At(ks, heads[i]) = "Ok" /\ At(ks, heads[i] + 1) = "Len") =>
                   IF At(ks, heads[i] + 2) = "Eof"
                   THEN /\ i = Len(heads)
                        /\ Len(commands) = i
                        /\ commands[i] = OkCmd(lexed[heads[i] + 1].tok.token_type.len)
                        /\ result.status \in {"none", "Ok"}
                   ELSE /\ result.status = "Err"
                        /\ Len(commands) = i - 1

\* a successful parse of two statements, the second being `ok +l400`
C5_Witness ==
    /\ result.status = "Ok"
    /\ Len(result.commands) = 2
    /\ result.commands[2] = OkCmd(<<4, 0, 0>>)

----------------------------------------------------------------------------
(* Message statements, as byte strings *)

RECURSIVE Val(_)
\* the number a short digit sequence denotes
Val(ds) ==
    IF ds = <<>> THEN 0 ELSE Val(SubSeq(ds, 1, Len(ds) - 1)) * 10 + ds[Len(ds)]

\* ds with zeros in front, 20 digits long
Pad20(ds) == [i \in 1..20 |-> IF i <= 20 - Len(ds) THEN 0 ELSE ds[i - (20 - Len(ds))]]

\* a digit sequence without leading zeros denotes a number of the unsigned
\* 64-bit range: at most 18 446744073 709551615
InUnsignedRange(ds) ==
    /\ Len(ds) <= 20
    /\ LET hi == Val(SubSeq(Pad20(ds), 1, 2))
           mid == Val(SubSeq(Pad20(ds), 3, 11))
           lo == Val(SubSeq(Pad20(ds), 12, 20))
       IN  \/ hi < 18
           \/ hi = 18 /\ mid < 446744073
           \/ hi = 18 /\ mid = 446744073 /\ lo <= 709551615

RECURSIVE StripRight(_, _)
\* s without its trailing bytes of `class`
StripRight(s, class) ==
    IF s # <<>> /\ s[Len(s)] \in class
    THEN StripRight(SubSeq(s, 1, Len(s) - 1), class)
    ELSE s

RECURSIVE StripZeros(_)
\* a digit sequence without its leading zeros (<<0>> for zero)
StripZeros(ds) ==
    IF Len(ds) > 1 /\ Head(ds) = 0 THEN StripZeros(Tail(ds)) ELSE ds

\* the digits of a run of ASCII digits
DigitsOf(run) == [i \in 1..Len(run) |-> run[i] - 48]

\* the index of the first `#` of the buffer, 0 if there is none
FirstHash(inp) ==
    IF \E k \in 1..Len(inp) : inp[k] = Hash
    THEN CHOOSE k \in 1..Len(inp) : inp[k] = Hash /\ \A j \in 1..(k - 1) : inp[j] # Hash
    ELSE 0

\* the bytes before the first `#`, without the whitespace before the `#`
BeforeHash(inp) == StripRight(SubSeq(inp, 1, FirstHash(inp) - 1), AsciiWhitespace)
\* the digit run that ends the bytes before the `#`
NumberRun(inp) ==
    SubSeq(BeforeHash(inp), Len(StripRight(BeforeHash(inp), AsciiDigit)) + 1,
           Len(BeforeHash(inp)))
\* the bytes before the digit run
BeforeNumber(inp) == StripRight(BeforeHash(inp), AsciiDigit)
\* the bytes before `+l`
BeforeLen(inp) == SubSeq(BeforeNumber(inp), 1, Len(BeforeNumber(inp)) - 2)

\* inp is `+l<n> #P`
IsShortForm(inp) ==
    /\ FirstHash(inp) > 0
    /\ NumberRun(inp) # <<>>
    /\ BeforeNumber(inp) = B("+l")

\* inp is `message +l<n> #P`
IsLongForm(inp) ==
    /\ FirstHash(inp) > 0
    /\ NumberRun(inp) # <<>>
    /\ Len(BeforeNumber(inp)) >= 2
    /\ SubSeq(BeforeNumber(inp), Len(BeforeNumber(inp)) - 1, Len(BeforeNumber(inp))) = B("+l")
    /\ StripRight(BeforeLen(inp), AsciiWhitespace) = B("message")
    /\ BeforeLen(inp) # B("message")

\* the number n of a message form
NumberOf(inp) == StripZeros(DigitsOf(NumberRun(inp)))
\* the payload P of a message form: every byte after the `#`
PayloadOf(inp) == SubSeq(inp, FirstHash(inp) + 1, Len(inp))

\* C6: for every number n and every byte string P, `message +l<n> #P` and
\* `+l<n> #P` both parse to exactly the one command Message{message: P,
\* len: n}, P being every byte after the `#` up to the end of the buffer.
C6_BothFormsOneMessage ==
    (/\ result.status # "none"
     /\ IsShortForm(input) \/ IsLongForm(input)
     /\ InUnsignedRange(NumberOf(input))) =>
        /\ result.status = "Ok"
        /\ result.commands = <<MessageCmd(PayloadOf(input), NumberOf(input))>>

\* a long form parsed whose payload holds a `;`, whitespace and a keyword
C6_Witness ==
    /\ result.status = "Ok"
    /\ IsLongForm(input)
    /\ result.commands = <<MessageCmd(B("baz; error"), <<1, 9>>)>>

\* C7: the len of each Message and Ok command is the number of the Len token
\* of its own statement, whatever the length of the payload is: a statement
\* `message Len Binary` is never rejected, and len never comes from the
\* fallback 0 of parse_message and parse_ok.
C7_LenFromLenToken ==
    /\ \A i \in 1..Len(commands) :
           /\ commands[i].type = "Message" =>
                  \/ /\ KindAt(heads[i]) = "Message"
                     /\ KindAt(heads[i] + 1) = "Len"
                     /\ commands[i].len = lexed[heads[i] + 1].tok.token_type.len
                  \/ /\ KindAt(heads[i]) = "Len"
                     /\ commands[i].len = lexed[heads[i]].tok.token_type.len
           /\ commands[i].type = "Ok" =>
                  /\ KindAt(heads[i]) = "Ok"
                  /\ KindAt(heads[i] + 1) = "Len"
                  /\ commands[i].len = lexed[heads[i] + 1].tok.token_type.len
    /\ LET ks == Kinds(stream)
       IN  \A i \in 1..Len(heads) :
               (/\ At(ks, heads[i]) = "Message"
                /\ At(ks, heads[i] + 1) = "Len"
                /\ At(ks, heads[i] + 2) = "Binary") =>
                   /\ result.status # "Err"
                   /\ Len(commands) = i
                   /\ commands[i].type = "Message"
    /\ result.status = "Ok" => result.commands = commands

\* a message of 4 bytes declared as 19 is returned as it is declared
C7_Witness ==
    /\ result.status = "Ok"
    /\ result.commands = <<MessageCmd(B("baz;"), <<1, 9>>)>>

----------------------------------------------------------------------------
(* The tokens of the lexer, as runs of bytes of the buffer *)

\* the index of the last byte of the maximal run of bytes of `class` that
\* starts at index k (k - 1 if the run is empty)
RunEnd(k, class) ==
    CHOOSE e \in (k - 1)..Len(input) :
        /\ \A j \in k..e : input[j] \in class
        /\ e < Len(input) => input[e + 1] \notin class

\* the maximal run of bytes of `class` that starts at index k
Run(k, class) == SubSeq(input, k, RunEnd(k, class))

\* C8: a Binary token carries every byte of the buffer after the `#`, the
\* cursor is the buffer length afterwards and every later call returns
\* Eof, so a buffer yields at most one Binary token.
C8_BinaryTakesTheRest ==
    /\ \A n \in 1..Len(lexed) :
           KindAt(n) = "Binary" =>
               /\ input[FirstByte(lexed[n])] = Hash
               /\ lexed[n].tok.value =
                      Some(SubSeq(input, FirstByte(lexed[n]) + 1, Len(input)))
               /\ lexed[n].to = Len(input)
               /\ \A m \in (n + 1)..Len(lexed) :
                      /\ lexed[m].tok = Token(TT("Eof"), None)
                      /\ lexed[m].to = Len(input)
    /\ Cardinality({n \in 1..Len(lexed) : KindAt(n) = "Binary"}) <= 1

\* a Binary token with a payload, and two calls after it
C8_Witness ==
    \E n \in 1..Len(lexed) :
        /\ KindAt(n) = "Binary"
        /\ lexed[n].tok.value = Some(B("foo"))
        /\ n + 2 <= Len(lexed)

\* the token of history entry c starts with `+l`
StartsLen(c) ==
    /\ FirstByte(c) < Len(input)
    /\ input[FirstByte(c)] = Plus
    /\ input[FirstByte(c) + 1] = LowerL

\* the digit run after the `+l` of history entry c
DigitRun(c) == Run(FirstByte(c) + 2, AsciiDigit)

\* C9: for the digit run after `+l`: if it is not empty and its value is in
\* the unsigned range, the token is Len(n), n being exactly the decimal
\* value of the run (leading zeros allowed), without payload; if the run is
\* empty or its value is out of range, the token is Illegal, never a Len.
C9_LenIsTheDecimalValue ==
    \A n \in 1..Len(lexed) :
        IF lexed[n].from < Len(input) /\ StartsLen(lexed[n])
        THEN IF /\ DigitRun(lexed[n]) # <<>>
                /\ InUnsignedRange(StripZeros(DigitsOf(DigitRun(lexed[n]))))
             THEN /\ lexed[n].tok =
                         Token(TLen(StripZeros(DigitsOf(DigitRun(lexed[n])))), None)
                  /\ Len(DigitRun(lexed[n])) <= 9 =>
                         Val(lexed[n].tok.token_type.len) = Val(DigitsOf(DigitRun(lexed[n])))
             ELSE KindAt(n) = "Illegal"
        ELSE KindAt(n) # "Len"

\* the largest number is a Len
C9_Witness ==
    \E n \in 1..Len(lexed) :
        /\ lexed[n].tok = Token(TLen(USIZE_MAX), None)
        /\ DigitRun(lexed[n]) = B("18446744073709551615")

\* the reserved words and their kinds
ReservedWords ==
    { <<B("with"), "With">>, <<B("group"), "Group">>, <<B("publisher"), "Publisher">>,
      <<B("subscribe"), "Subscribe">>, <<B("message"), "Message">>, <<B("ok"), "Ok">>,
      <<B("error"), "Error">> }

\* text is the lower-case word `word` in some mix of ASCII upper and lower case
SpellsIgnoringCase(text, word) ==
    /\ Len(text) = Len(word)
    /\ \A i \in 1..Len(word) :
           \/ text[i] = word[i]
           \/ text[i] \in AsciiUpper /\ text[i] + 32 = word[i]

\* the kind of an identifier-shaped run
KindOfIdentifier(text) ==
    IF \E w \in ReservedWords : SpellsIgnoringCase(text, w[1])
    THEN (CHOOSE w \in ReservedWords : SpellsIgnoringCase(text, w[1]))[2]
    ELSE "Name"

\* C10: for an identifier-shaped run (an ASCII letter or `_`, then letters,
\* digits, `_` or `.`): the token has the reserved kind of the word the run
\* spells in any mix of upper and lower case, Name if it spells none, and
\* its payload is the exact bytes of the run.
C10_KeywordsInAnyCase ==
    \A n \in 1..Len(lexed) :
        IF /\ lexed[n].from < Len(input)
           /\ FirstByte(lexed[n]) <= Len(input)
           /\ input[FirstByte(lexed[n])] \in AsciiUpper \cup AsciiLower \cup {Underscore}
        THEN /\ lexed[n].tok.value =
                    Some(Run(FirstByte(lexed[n]), AsciiAlphanumeric \cup {Underscore, Dot}))
             /\ KindAt(n) =
                    KindOfIdentifier(Run(FirstByte(lexed[n]),
                                         AsciiAlphanumeric \cup {Underscore, Dot}))
        ELSE KindAt(n) \notin IdentifierKinds

\* a reserved word in mixed case keeps its spelling
C10_Witness ==
    \E n \in 1..Len(lexed) :
        lexed[n].tok = Token(TT("Publisher"), Some(B("pUBLISHER")))

----------------------------------------------------------------------------
(* The commands a grammatical token stream denotes *)

\* the kind of the n-th token of a stream ts, Eof from its end on
KindIn(ts, n) == IF n <= Len(ts) THEN ts[n].token_type.kind ELSE "Eof"

\* the number of tokens of the statement a grammatical stream ts starts with
StatementLen(ts) ==
    CASE KindIn(ts, 1) = "Publisher" -> 2
      [] KindIn(ts, 1) = "Subscribe" -> 5
      [] KindIn(ts, 1) = "Message" -> 3
      [] KindIn(ts, 1) = "Len" -> 2
      [] KindIn(ts, 1) = "Ok" -> 2
      [] KindIn(ts, 1) = "Error" -> IF KindIn(ts, 2) = "Binary" THEN 2 ELSE 1

\* the command of the statement a grammatical stream ts starts with
CommandOf(ts) ==
    CASE KindIn(ts, 1) = "Publisher" -> PublisherCmd(ts[2].value[1])
      [] KindIn(ts, 1) = "Subscribe" -> SubscriberCmd(ts[2].value[1], ts[5].value[1])
      [] KindIn(ts, 1) = "Message" -> MessageCmd(ts[3].value[1], ts[2].token_type.len)
      [] KindIn(ts, 1) = "Len" -> MessageCmd(ts[2].value[1], ts[1].token_type.len)
      [] KindIn(ts, 1) = "Ok" -> OkCmd(ts[2].token_type.len)
      [] KindIn(ts, 1) = "Error" ->
             ErrorCmd(IF KindIn(ts, 2) = "Binary" THEN ts[2].value ELSE None)

RECURSIVE CommandsOf(_)
\* the commands of the statements of a grammatical stream ts, in the order
\* of the statements
CommandsOf(ts) ==
    IF KindIn(ts, 1) = "Eof" THEN <<>>
    ELSE IF KindIn(ts, 1) = "Semicolon" THEN CommandsOf(Tail(ts))
    ELSE <<CommandOf(ts)>> \o CommandsOf(Drop(ts, StatementLen(ts)))

\* the commands built so far are the first ones of cs, and the result, once
\* returned, is Ok with exactly cs
BuildsInOrder(cs) ==
    /\ result.status \in {"none", "Ok"}
    /\ Len(commands) <= Len(cs)
    /\ commands = SubSeq(cs, 1, Len(commands))
    /\ result.status = "Ok" => result.commands = cs

\* C11: for a buffer whose tokens are k >= 0 grammatical statements, each
\* optionally followed by `;` (an ok statement, as the grammar requires,
\* being followed by end-of-input), parse returns Ok with exactly k
\* commands, the i-th being the one of the i-th statement in buffer order;
\* for the empty buffer the result is the empty sequence.
C11_CommandsInStatementOrder ==
    /\ Program(Kinds(stream)) => BuildsInOrder(CommandsOf(stream))
    /\ (input = <<>> /\ result.status # "none") =>
           result = [status |-> "Ok", commands |-> <<>>, error |-> ""]

\* three statements, two of them followed by a `;`, gave three commands in
\* the order of the buffer
C11_Witness ==
    /\ result.status = "Ok"
    /\ Len(Kinds(stream)) = 11
    /\ result.commands = <<ErrorCmd(None),
                           PublisherCmd(B("bar")),
                           SubscriberCmd(B("a"), B("b"))>>

----------------------------------------------------------------------------
(* Error statements, as byte strings *)

\* inp is the keyword `error` (in any case), whitespace and `#P`
IsErrorWithPayload(inp) ==
    /\ FirstHash(inp) > 0
    /\ SpellsIgnoringCase(BeforeHash(inp), KwError)
    /\ Len(BeforeHash(inp)) < FirstHash(inp) - 1

\* inp is the keyword `error` (in any case) and nothing else
IsErrorAlone(inp) == SpellsIgnoringCase(inp, KwError)

\* C12: for every byte string P, the keyword `error`, whitespace and `#P`
\* parse to exactly [Error{message: Some(P)}], `error` alone parses to
\* exactly [Error{message: None}], and parse_error_message never returns
\* Err: an iteration that dispatches on an Error token always pushes an
\* Error command.
C12_ErrorStatement ==
    /\ (result.status # "none" /\ IsErrorWithPayload(input)) =>
           /\ result.status = "Ok"
           /\ result.commands = <<ErrorCmd(Some(PayloadOf(input)))>>
    /\ (result.status # "none" /\ IsErrorAlone(input)) =>
           /\ result.status = "Ok"
           /\ result.commands = <<ErrorCmd(None)>>
    /\ \A i \in 1..Len(heads) :
           KindAt(heads[i]) = "Error" =>
               /\ Len(commands) >= i
               /\ commands[i].type = "Error"
               /\ commands[i].message =
                      IF KindAt(heads[i] + 1) = "Binary"
                      THEN lexed[heads[i] + 1].tok.value
                      ELSE None

\* `error #x` was parsed to the Error command that carries x
C12_Witness ==
    /\ IsErrorWithPayload(input)
    /\ result.status = "Ok"
    /\ result.commands = <<ErrorCmd(Some(B("x")))>>

----------------------------------------------------------------------------
(* Subscribe statements, as byte strings *)

RECURSIVE Words(_)
\* the maximal runs of bytes other than ASCII whitespace, in order
Words(s) ==
    IF s = <<>> THEN <<>>
    ELSE IF Head(s) \in AsciiWhitespace THEN Words(Tail(s))
    ELSE LET n == CHOOSE n \in 1..Len(s) :
                      /\ \A j \in 1..n : s[j] \notin AsciiWhitespace
                      /\ n < Len(s) => s[n + 1] \in AsciiWhitespace
         IN  <<SubSeq(s, 1, n)>> \o Words(SubSeq(s, n + 1, Len(s)))

\* w is an identifier that is not a reserved word
IsPlainIdentifier(w) ==
    /\ w # <<>>
    /\ w[1] \in AsciiUpper \cup AsciiLower \cup {Underscore}
    /\ \A j \in 2..Len(w) : w[j] \in AsciiAlphanumeric \cup {Underscore, Dot}
    /\ KindOfIdentifier(w) = "Name"

\* ws is the words of `subscribe A with group B`
IsSubscribeWords(ws) ==
    /\ Len(ws) = 5
    /\ SpellsIgnoringCase(ws[1], KwSubscribe)
    /\ IsPlainIdentifier(ws[2])
    /\ SpellsIgnoringCase(ws[3], KwWith)
    /\ SpellsIgnoringCase(ws[4], KwGroup)
    /\ IsPlainIdentifier(ws[5])

\* the tokens after the h-th token of the stream ks are Name, With, Group,
\* Name in that order
SubscribeShape(ks, h) ==
    /\ At(ks, h + 1) = "Name"
    /\ At(ks, h + 2) = "With"
    /\ At(ks, h + 3) = "Group"
    /\ At(ks, h + 4) = "Name"

\* the i-th statement, a subscribe, gave the command of its two names
SubscribedAt(i) ==
    /\ Len(commands) >= i
    /\ commands[i] = SubscriberCmd(lexed[heads[i] + 1].tok.value[1],
                                   lexed[heads[i] + 4].tok.value[1])

\* the i-th statement is the last one dispatched and parse returned Err
RejectedAt(i) ==
    /\ result.status = "Err"
    /\ i = Len(heads)
    /\ Len(commands) = i - 1

\* what became of each subscribe statement of the stream ks
SubscribeStatements(ks) ==
    \A i \in 1..Len(heads) :
        At(ks, heads[i]) = "Subscribe" =>
            IF SubscribeShape(ks, heads[i]) THEN SubscribedAt(i) ELSE RejectedAt(i)

\* C13: for all identifiers A and B that are not reserved words, `subscribe
\* A with group B` parses to exactly [Subscriber{queue_name: A, group_name:
\* B}]; a subscribe whose next four tokens are not Name, With, Group, Name in
\* that order (one missing, of another kind, a reserved word where a Name is
\* required) makes parse return Err.
C13_SubscribeShape ==
    /\ (result.status # "none" /\ IsSubscribeWords(Words(input))) =>
           /\ result.status = "Ok"
           /\ result.commands = <<SubscriberCmd(Words(input)[2], Words(input)[5])>>
    /\ SubscribeStatements(Kinds(stream))

\* `subscribe a with group b` gave the queue a and the group b
C13_Witness ==
    /\ IsSubscribeWords(Words(input))
    /\ result.status = "Ok"
    /\ result.commands = <<SubscriberCmd(B("a"), B("b"))>>

\* a subscribe with a reserved word where its second Name is required
C13_Rejected ==
    /\ Len(heads) = 1
    /\ KindAt(heads[1]) = "Subscribe"
    /\ Len(lexed) = 5
    /\ KindAt(5) = "Error"
    /\ result.status = "Err"

----------------------------------------------------------------------------
(* A trailing `;` *)

\* ws is the words of `publisher A`
IsPublisherWords(ws) ==
    /\ Len(ws) = 2
    /\ SpellsIgnoringCase(ws[1], KwPublisher)
    /\ IsPlainIdentifier(ws[2])

\* the command of a publisher or subscribe statement given by its words
CommandOfWords(ws) ==
    IF Len(ws) = 2 THEN PublisherCmd(ws[2]) ELSE SubscriberCmd(ws[2], ws[5])

\* s is one valid publisher or subscribe statement
IsNamingStatement(s) == IsPublisherWords(Words(s)) \/ IsSubscribeWords(Words(s))

\* the buffer without its last byte
ButLast(inp) == SubSeq(inp, 1, Len(inp) - 1)

\* inp is one valid publisher or subscribe statement, optional whitespace
\* and a `;`
HasTrailingSemicolon(inp) ==
    /\ inp # <<>>
    /\ inp[Len(inp)] = Semi
    /\ IsNamingStatement(ButLast(inp))

\* C14: a trailing `;` is a no-op before end of input: for every buffer S
\* that is one valid publisher or subscribe statement, parse(S) and parse(S
\* followed by `;`), with or without whitespace before the `;`, both return
\* Ok with the one command of the words of S.
C14_TrailingSemicolon ==
    result.status # "none" =>
        /\ IsNamingStatement(input) =>
               /\ result.status = "Ok"
               /\ result.commands = <<CommandOfWords(Words(input))>>
        /\ HasTrailingSemicolon(input) =>
               /\ result.status = "Ok"
               /\ result.commands = <<CommandOfWords(Words(ButLast(input)))>>

\* a subscribe statement, whitespace and a `;` that reached the parser as a
\* Semicolon token
C14_Witness ==
    /\ HasTrailingSemicolon(input)
    /\ input[Len(input) - 1] \in AsciiWhitespace
    /\ \E n \in 1..Len(lexed) : KindAt(n) = "Semicolon"
    /\ result.status = "Ok"
    /\ result.commands = <<SubscriberCmd(B("a"), B("b"))>>

----------------------------------------------------------------------------
(* End of input *)

\* the cursor c is at or past the end of the buffer, or at a NUL byte
AtEnd(c) == c >= Len(input) \/ input[c + 1] = 0

\* C15: Eof is absorbing: next_token returns Eof only with the cursor at or
\* past the buffer length or at a NUL byte, and once it has returned Eof
\* every later call returns Eof with no payload and leaves the cursor
\* unchanged.
C15_EofAbsorbing ==
    \A n \in 1..Len(lexed) :
        KindAt(n) = "Eof" =>
            /\ lexed[n].tok = Token(TT("Eof"), None)
            /\ AtEnd(lexed[n].to)
            /\ \A m \in (n + 1)..Len(lexed) :
                   /\ lexed[m].tok = Token(TT("Eof"), None)
                   /\ lexed[m].from = lexed[n].to
                   /\ lexed[m].to = lexed[n].to
            /\ n = Len(lexed) => idx = lexed[n].to

\* Eof at a NUL byte that has other bytes after it, and two calls after it
C15_Witness ==
    \E n \in 1..Len(lexed) :
        /\ KindAt(n) = "Eof"
        /\ lexed[n].to + 1 < Len(input)
        /\ input[lexed[n].to + 1] = 0
        /\ input[lexed[n].to + 2] \in IdentStart
        /\ n + 2 <= Len(lexed)

----------------------------------------------------------------------------
(* The expectations of the parser *)

\* token types to expect: every kind, and Len with two different numbers
ExpectableTypes == {TT(k) : k \in TokenKinds \ {"Len"}} \cup {TLen(<<0>>), TLen(<<7>>)}

\* lists of token types to expect
ExpectableLists ==
    { <<>>, <<TT("Binary")>>, <<TT("Name"), TLen(<<0>>)>>, <<TT("Eof"), TT("Semicolon")>>,
      <<TT("With"), TT("Group"), TT("Binary")>> }

\* e is what an expectation returns from the parser p when the lookahead
\* matches, c being the next call of the lexer: Ok, the old lookahead is
\* current and the token of c is the lookahead
Advanced(p, e, c) ==
    /\ e.ok
    /\ e.p.current_tok = p.next_tok
    /\ e.p.next_tok = c.tok
    /\ e.p.idx = c.to
    /\ e.p.lexed = Append(p.lexed, c)

\* e is what an expectation returns from the parser p when the lookahead
\* does not match: Err, and nothing moved
Refused(p, e) ==
    /\ ~e.ok
    /\ e.p.current_tok = p.current_tok
    /\ e.p.next_tok = p.next_tok
    /\ e.p.idx = p.idx
    /\ e.p.lexed = p.lexed

\* expected_token from the parser p, for every type
ExpectedTokenFrame(inp, p) ==
    \A tt \in ExpectableTypes :
        IF p.next_tok.token_type.kind = tt.kind
        THEN Advanced(p, expected_token(inp, p, tt), Call(inp, p.idx))
        ELSE Refused(p, expected_token(inp, p, tt))

\* expected_token_in from the parser p, for every list
ExpectedTokenInFrame(inp, p) ==
    \A tts \in ExpectableLists :
        IF \E i \in 1..Len(tts) : p.next_tok.token_type.kind = tts[i].kind
        THEN Advanced(p, expected_token_in(inp, p, tts), Call(inp, p.idx))
        ELSE Refused(p, expected_token_in(inp, p, tts))

\* parse returned Err from an expectation of the statement at the h-th
\* token, whose j-th expectation is the first that failed: the window is
\* where the j - 1 expectations that matched left it
StoppedAt(h, j) ==
    /\ Len(lexed) = h + j
    /\ current_tok = lexed[h + j - 1].tok
    /\ next_tok = lexed[h + j].tok
    /\ idx = lexed[h + j].to

\* the window after an Err of the last statement dispatched, in the stream ks
StoppedAtMismatch(ks) ==
    (/\ result.status = "Err"
     /\ At(ks, heads[Len(heads)]) \in StatementHeads) =>
        StoppedAt(heads[Len(heads)], FirstMismatch(ks, heads[Len(heads)]))

\* C16: expected_token(kind) and expected_token_in(kinds): when the kind
\* of the lookahead matches the expectation (the number of a Len being
\* ignored), the window advances by exactly one token (current becomes the
\* old lookahead, lookahead becomes the next token from the lexer) and Ok is
\* returned; when it does not match, Err is returned and the current token,
\* the lookahead token and the lexer cursor are unchanged.
C16_ExpectationFrame ==
    /\ ExpectedTokenFrame(input, Self)
    /\ ExpectedTokenInFrame(input, Self)
    /\ StoppedAtMismatch(Kinds(stream))

\* a subscribe whose first two expectations matched and whose third did
\* not: the window stays on `with` and the name that follows it
C16_Witness ==
    /\ result.status = "Err"
    /\ Len(heads) = 1
    /\ KindAt(heads[1]) = "Subscribe"
    /\ Len(lexed) = 4
    /\ current_tok = Token(TT("With"), Some(KwWith))
    /\ next_tok = Token(TT("Name"), Some(B("b")))

----------------------------------------------------------------------------
(* Equality of tokens *)

\* the token types the tests of the lexer compare a token's type with
TestedTypes ==
    {TT(k) : k \in TokenKinds \ {"Len"}} \cup {TLen(<<2, 5, 0>>), TLen(<<0>>)}

\* C17 (as claimed): the number of a Len is ignored only by the
\* grammar-matching routines of the parser; the equality the tests use on
\* TokenType and on Token is full value equality, so a token type equals
\* Len(b) only when it is Len(b), and a token equals a token of type Len(b)
\* only when it is that very token.
C17_FullEqualityInTests ==
    \A n \in 1..Len(lexed) :
        \A e \in TestedTypes :
            /\ TokenTypeEq(lexed[n].tok.token_type, e) <=> lexed[n].tok.token_type = e
            /\ TokenEq(lexed[n].tok, Token(e, None)) <=> lexed[n].tok = Token(e, None)

----------------------------------------------------------------------------
(* `+l` without a number *)

\* the digit run after the `+l` of history entry c does not parse as an
\* unsigned integer: it is empty or its value is out of range
NotANumber(c) ==
    \/ DigitRun(c) = <<>>
    \/ ~InUnsignedRange(StripZeros(DigitsOf(DigitRun(c))))

\* C18 (as claimed): when `+l` is followed by a digit run that does not
\* parse as an unsigned integer, next_token returns an Illegal token whose
\* payload is the raw slice consumed by that call, the `+l` prefix followed
\* by the digit run, and the cursor is just past that slice.
C18_IllegalCarriesRawSlice ==
    \A n \in 1..Len(lexed) :
        (/\ lexed[n].from < Len(input)
         /\ StartsLen(lexed[n])
         /\ NotANumber(lexed[n])) =>
            /\ lexed[n].tok =
                   Token(TT("Illegal"), Some(<<Plus, LowerL>> \o DigitRun(lexed[n])))
            /\ lexed[n].to = FirstByte(lexed[n]) + 1 + Len(DigitRun(lexed[n]))

----------------------------------------------------------------------------
(* Progress *)

\* the calls of next_token so far: each starts where the one before it
\* left the cursor, none moves the cursor back, and each that returned a
\* token other than Eof moved it forward
CursorAdvances ==
    \A n \in 1..Len(lexed) :
        /\ lexed[n].from = IF n = 1 THEN 0 ELSE lexed[n - 1].to
        /\ lexed[n].from <= lexed[n].to
        /\ KindAt(n) # "Eof" => lexed[n].from < lexed[n].to
        /\ n = Len(lexed) => idx = lexed[n].to

\* an iteration of the loop returns Err or leaves the window at least one
\* token further
IterationAdvances ==
    LoopTop =>
        \/ result'.status = "Err"
        \/ /\ Len(lexed') > Len(lexed)
           /\ current_tok' = lexed'[Len(lexed') - 1].tok
           /\ next_tok' = lexed'[Len(lexed')].tok

\* the lexer is never called more than twice past the first Eof of the
\* buffer
CallsBounded == Len(lexed) <= Len(Kinds(stream)) + 2

\* C19: parse terminates on every finite buffer: every call of next_token
\* that returns a token other than Eof strictly increases the cursor, the
\* cursor never decreases, every iteration of the parse_commands loop
\* returns Err or moves the window forward by at least one token, the
\* window never goes further than two tokens past the first Eof, and every
\* run of parse takes finitely many steps.
C19_Terminates ==
    /\ []CursorAdvances
    /\ []CallsBounded
    /\ [][IterationAdvances]_vars
    /\ <>[][FALSE]_vars

\* parse has returned after three iterations and ten calls of the lexer
C19_Witness ==
    /\ result.status # "none"
    /\ Len(heads) = 3
    /\ Len(lexed) >= 10
    /\ KindAt(Len(lexed)) = "Eof"

----------------------------------------------------------------------------
(* Panics *)

\* the call of history entry c kept its cursor and its slices in bounds:
\* the cursor is at most one past the buffer length, and only after an
\* identifier or an Eof that follows one; the slice start..end of an identifier, of the digits after
\* `+l` and of an Illegal run, and the slice idx.. of a Binary, have start
\* <= end <= buffer length and are what the token carries
InBounds(c) ==
    /\ c.from <= c.to
    /\ c.to <= Len(input) + 1
    /\ c.tok.token_type.kind \notin IdentifierKinds \cup {"Eof"} => c.to <= Len(input)
    /\ c.tok.token_type.kind = "Eof" => c.tok.value = None
    /\ c.tok.token_type.kind \in IdentifierKinds =>
           /\ FirstByte(c) - 1 < c.to - 1
           /\ c.to - 1 <= Len(input)
           /\ c.tok.value = Some(Slice(input, FirstByte(c) - 1, c.to - 1))
    /\ c.tok.token_type.kind = "Binary" =>
           /\ FirstByte(c) <= Len(input)
           /\ c.tok.value = Some(Slice(input, FirstByte(c), Len(input)))
    /\ c.tok.token_type.kind = "Illegal" =>
           /\ c.tok.value # None
           /\ Len(c.tok.value[1]) <= c.to - (FirstByte(c) - 1)
           /\ c.tok.value = Some(Slice(input, c.to - Len(c.tok.value[1]), c.to))

\* a Name and a Binary always carry a payload
Carries(tok) == tok.token_type.kind \in {"Name", "Binary"} => tok.value # None

\* the payloads the built commands unwrapped are those of a Name or of a
\* Binary token of the statement
UnwrappedFrom(i) ==
    /\ commands[i].type = "Publisher" =>
           /\ KindAt(heads[i] + 1) = "Name"
           /\ Some(commands[i].queue_name) = lexed[heads[i] + 1].tok.value
    /\ commands[i].type = "Subscriber" =>
           /\ KindAt(heads[i] + 1) = "Name"
           /\ KindAt(heads[i] + 4) = "Name"
           /\ Some(commands[i].queue_name) = lexed[heads[i] + 1].tok.value
           /\ Some(commands[i].group_name) = lexed[heads[i] + 4].tok.value
    /\ commands[i].type = "Message" =>
           \E j \in 1..2 :
               /\ KindAt(heads[i] + j) = "Binary"
               /\ Some(commands[i].message) = lexed[heads[i] + j].tok.value

\* C20: parse never panics on any byte buffer: in the lexer the cursor
\* never exceeds the buffer length by more than 1 and every slice taken has
\* start <= end <= buffer length; in the parser every unwrap of a token
\* payload happens only when the current token is a Name or a Binary, which
\* always carry a payload.
C20_NeverPanics ==
    /\ result.status # "Panic"
    /\ idx <= Len(input) + 1
    /\ \A n \in 1..Len(lexed) : InBounds(lexed[n]) /\ Carries(lexed[n].tok)
    /\ \A i \in 1..Len(commands) : UnwrappedFrom(i)

\* a publisher statement that ends the buffer: the cursor is one past the
\* buffer length and the name was unwrapped
C20_Witness ==
    /\ idx = Len(input) + 1
    /\ result.status = "Ok"
    /\ result.commands = <<PublisherCmd(B("foo"))>>

----------------------------------------------------------------------------
(* The lookahead window *)

\* the most calls of consume one iteration of parse_commands makes: one for
\* a `;` and five for a subscribe statement
MaxConsumes == 6

\* the n-th token of the buffer; the lexer returns Eof from its first Eof on
StreamAt(n) == IF n <= Len(stream) THEN stream[n] ELSE Token(TT("Eof"), None)

\* the window of the parser p: the lexer was called at least twice, each
\* call from where the call before it left the cursor, its n-th call
\* returned the n-th token of the buffer, current_tok and next_tok are the
\* tokens of its last two calls, and next_tok is Eof once current_tok is
Window(p) ==
    /\ Len(p.lexed) >= 2
    /\ \A n \in 1..Len(p.lexed) :
           /\ p.lexed[n].tok = StreamAt(n)
           /\ p.lexed[n].from = IF n = 1 THEN 0 ELSE p.lexed[n - 1].to
    /\ p.idx = p.lexed[Len(p.lexed)].to
    /\ p.current_tok = p.lexed[Len(p.lexed) - 1].tok
    /\ p.next_tok = p.lexed[Len(p.lexed)].tok
    /\ p.current_tok.token_type.kind = "Eof" => p.next_tok = Token(TT("Eof"), None)

RECURSIVE WindowAfter(_, _, _)
\* the window of the parser p, and of the parser after each of k calls of
\* consume
WindowAfter(inp, p, k) ==
    /\ Window(p)
    /\ k > 0 => WindowAfter(inp, Parser_consume(inp, p), k - 1)

\* C21: from construction on and after every consume parse can still make,
\* current_tok and next_tok are two consecutive tokens of the lexer's token
\* stream, the lexer has produced exactly the tokens up to next_tok, no
\* token of the stream is dropped or seen twice by the parser, and once
\* current_tok is Eof, next_tok is Eof too.
C21_LookaheadWindow ==
    WindowAfter(input, Self, IF Running THEN MaxConsumes ELSE 0)

\* parse has returned after walking a stream of at least five tokens: the
\* window is one call past the first Eof, Eof in both places
C21_Witness ==
    /\ result.status = "Ok"
    /\ Len(stream) >= 5
    /\ Len(lexed) = Len(stream) + 1
    /\ current_tok = Token(TT("Eof"), None)
    /\ next_tok = Token(TT("Eof"), None)

=============================================================================
